---- MODULE Spec2Model ----
(***************************************************************************)
(* fastgcs: credential resolution and conditional-fetch caching.           *)
(*                                                                         *)
(* Two implementations share one home directory: the Ruby class FastGCS    *)
(* (lib/fastgcs.rb) and the Go package fastgcs.  Both use the same durable *)
(* token cache file (~/.config/gcloud/com.shopify.fastgcs.json) and the    *)
(* same object cache directory (~/.cache/fastgcs).  A process is one       *)
(* instance of one implementation; every file-system or network call of a  *)
(* handler is one step, so that another process (or a reader) can observe  *)
(* the files in between.                                                   *)
(***************************************************************************)
EXTENDS Integers, Sequences, FiniteSets, TLC

\* ------------------------------------------------------------------ bounds
MaxTime == 2        \* the clock runs 0..MaxTime
MaxVersion == 2     \* the remote object takes versions 1..MaxVersion
MaxExpiresIn == 2   \* expires_in of a refresh response is 1..MaxExpiresIn
MaxLen == 3         \* characters after the scheme in a reference under test

\* ------------------------------------------------------------- processes
RubyProcs == {"rb1"}
GoProcs == {"go1"}
\* two Ruby processes sharing the home directory
RubyProcs2 == {"rb1", "rb2"}
Procs == RubyProcs2 \cup GoProcs

\* ---------------------------------------------------------------- strings
\* A string is a sequence of one-character strings.
Str_gs == <<"g", "s", ":", "/", "/">>
URL_ok == Str_gs \o <<"b", "/", "k">>
URL_bad == <<"b", "/", "k">>
URLs == {URL_ok, URL_bad}
Ops == {"open", "copy", "read"}

RECURSIVE IndexFrom(_, _, _)
\* the first position >= i of character c in s, or 0
IndexFrom(s, c, i) ==
  IF i > Len(s) THEN 0
  ELSE IF s[i] = c THEN i
  ELSE IndexFrom(s, c, i + 1)

HasPrefixAt(s, i, pre) ==
  /\ i + Len(pre) - 1 <= Len(s)
  /\ \A j \in 1..Len(pre) : s[i + j - 1] = pre[j]

NoMatch == [ok |-> FALSE, bucket |-> <<>>, object |-> <<>>]

\* ^gs://([^/]+)/(.*)$ tried at position i of s, the object running up to
\* (not including) position stop.
MatchAt(s, i, stop) ==
  LET b == i + Len(Str_gs)
      sl == IndexFrom(s, "/", b)
  IN IF HasPrefixAt(s, i, Str_gs) /\ sl > b /\ sl < stop
     THEN [ok |-> TRUE, bucket |-> SubSeq(s, b, sl - 1),
           object |-> SubSeq(s, sl + 1, stop - 1)]
     ELSE NoMatch

\* Go: regexp.MustCompile("^gs://([^/]+)/(.*)$"): ^ and $ anchor the text
\* and . does not match a newline.
parseGSURL(gsURL) ==
  LET m == MatchAt(gsURL, 1, Len(gsURL) + 1)
  IN IF m.ok /\ IndexFrom(m.object, "\n", 1) = 0 THEN m ELSE NoMatch

RECURSIVE ReplaceAll(_, _, _)
ReplaceAll(s, old, new) ==
  IF s = <<>> THEN <<>>
  ELSE <<IF Head(s) = old THEN new ELSE Head(s)>> \o ReplaceAll(Tail(s), old, new)

\* A variant of cachePath: the path without the "--" between bucket and key
cachePath_noSeparator(gsURL) ==
  LET m == parseGSURL(gsURL)
  IN [ok |-> m.ok,
      path |-> IF m.ok THEN m.bucket \o ReplaceAll(m.object, "/", "-") ELSE <<>>]

\* Go: filepath.Join(cacheRoot, bucket + "--" + ReplaceAll(object, "/", "-"));
\* the cache root is the same for every entry and is left out of the name.
cachePath(gsURL) ==
  LET m == parseGSURL(gsURL)
  IN [ok |-> m.ok,
      path |-> IF m.ok THEN m.bucket \o <<"-", "-">> \o ReplaceAll(m.object, "/", "-")
               ELSE <<>>]

Paths == {cachePath(u).path : u \in {v \in URLs : cachePath(v).ok}}

\* ---------------------------------------------------------- remote object
ETag(v) == <<v>>
\* the bytes of version v: later versions are shorter than earlier ones
Body(v) == [i \in 1..(MaxVersion + 1 - v) |-> v]
ErrStatuses == {404, 500}
ErrBody(status) == <<status>>

NoResp == [status |-> 0, etag |-> <<>>, body |-> <<>>]
\* The storage endpoint: 304 when If-None-Match carries the current ETag,
\* 200 with the current bytes and ETag otherwise; an error status at will.
ServerResponses(ver, inm) ==
  { IF inm.set /\ inm.val = ETag(ver)
    THEN [status |-> 304, etag |-> ETag(ver), body |-> <<>>]
    ELSE [status |-> 200, etag |-> ETag(ver), body |-> Body(ver)] }
  \cup {[status |-> s, etag |-> <<>>, body |-> ErrBody(s)] : s \in ErrStatuses}

\* ------------------------------------------------------------------ files
NoFile == [exists |-> FALSE, data |-> <<>>]
File(d) == [exists |-> TRUE, data |-> d]

\* The durable token cache file: kind "none" (no file), "empty" (zero
\* bytes), "junk" (not JSON) or "json" (a record {token, expiry}); fmt is
\* the timestamp format of expiry; mode is the permission bits.
NoTokFile == [kind |-> "none", fmt |-> "", token |-> "", expiry |-> 0, mode |-> ""]
JsonFile(fmt, tok, exp, mode) ==
  [kind |-> "json", fmt |-> fmt, token |-> tok, expiry |-> exp, mode |-> mode]
Readable(f) == f.mode # "0000"

NoToken == [set |-> FALSE, value |-> "", expiry |-> 0]
Token(v, e) == [set |-> TRUE, value |-> v, expiry |-> e]

NoEtag == [set |-> FALSE, val |-> <<>>]
NoGet == [sent |-> FALSE, token |-> NoToken, at |-> 0, inm |-> NoEtag]
NoCall == [op |-> "", url |-> <<>>, path |-> <<>>]
NoOutcome == [status |-> "none", err |-> "", code |-> 0, data |-> <<>>]
Ok(d) == [status |-> "ok", err |-> "", code |-> 0, data |-> d]
Error(e) == [status |-> "error", err |-> e, code |-> 0, data |-> <<>>]
HttpError(c) == [status |-> "error", err |-> "RemoteFetchError", code |-> c, data |-> <<>>]
Panic == [status |-> "panic", err |-> "nil pointer dereference", code |-> 0, data |-> <<>>]
NoEns == [res |-> "none", tried |-> {}, src |-> "", from |-> "", err |-> ""]

VARIABLES
  now,        \* the wall clock
  remoteVer,  \* the version of the remote object
  tokFile,    \* the durable token cache file
  sdkStore,   \* access_tokens.db of the desktop SDK
  sameFs,     \* whether the temporary directory and the cache are one file system
  objFile,    \* path -> the cached object file
  etagFile,   \* path -> the sidecar .<name>.etag
  pc,         \* process -> position in its handler
  call,       \* process -> the operation in progress
  token,      \* process -> the access token held in memory
  etag,       \* process -> the sidecar ETag read for this call
  tmpFile,    \* process -> the temporary download file
  resp,       \* process -> the response being handled
  wpos,       \* process -> bytes copied so far
  outcome,    \* process -> how the last call ended
  ens,        \* process -> the token resolution in progress
  nGet,       \* process -> storage GETs sent in this call
  nRefresh,   \* process -> refresh POSTs sent in this call
  lastGet,    \* process -> the last storage GET of this call
  pre,        \* process -> the cache entry and token cache as the call began
  fetchedVer, \* process -> remote version its last successful call left current
  probe       \* two references handed to the parsers, and what came back

fsVars == <<tokFile, objFile, etagFile>>
envVars == <<now, remoteVer, sdkStore, sameFs, probe>>
procVars == <<pc, call, token, etag, tmpFile, resp, wpos, outcome, ens>>
histVars == <<nGet, nRefresh, lastGet, pre, fetchedVer>>
vars == <<now, remoteVer, tokFile, sdkStore, sameFs, objFile, etagFile, pc, call,
          token, etag, tmpFile, resp, wpos, outcome, ens, nGet, nRefresh,
          lastGet, pre, fetchedVer, probe>>

InCall(p) == pc[p] \notin {"new", "idle", "crashed"}

Snapshot(p, path) ==
  [obj |-> IF path \in Paths THEN objFile[path] ELSE NoFile,
   etag |-> IF path \in Paths THEN etagFile[path] ELSE NoFile,
   tok |-> tokFile, ver |-> remoteVer, fetched |-> fetchedVer[p]]
NoSnapshot ==
  [obj |-> NoFile, etag |-> NoFile, tok |-> NoTokFile, ver |-> 0, fetched |-> 0]

\* ------------------------------------------------------------ environment
\* The token cache as a process may find it: absent, a record written by
\* either implementation (expired or not), not JSON, or unreadable.
InitTokFiles ==
  {NoTokFile,
   [kind |-> "junk", fmt |-> "", token |-> "", expiry |-> 0, mode |-> "0600"]}
  \cup {JsonFile(f, "c", e, m) :
          f \in {"rfc3339", "rubytime"}, e \in {0, MaxTime - 1}, m \in {"0600", "0000"}}

\* access_tokens.db: missing, without a match, or with a token
SdkMissing == [kind |-> "missing", token |-> "", expiry |-> 0]
SdkNoMatch == [kind |-> "nomatch", token |-> "", expiry |-> 0]
InitSdkStores ==
  {SdkMissing, SdkNoMatch} \cup {[kind |-> "row", token |-> "s", expiry |-> e] : e \in {0, MaxTime}}

InitProgram ==
  /\ now = 0
  /\ remoteVer = 1
  /\ tokFile \in InitTokFiles
  /\ sdkStore \in InitSdkStores
  /\ sameFs \in BOOLEAN
  /\ objFile = [x \in Paths |-> NoFile]
  /\ etagFile = [x \in Paths |-> NoFile]
  /\ pc = [p \in Procs |-> "new"]
  /\ call = [p \in Procs |-> NoCall]
  /\ token = [p \in Procs |-> NoToken]
  /\ etag = [p \in Procs |-> NoEtag]
  /\ tmpFile = [p \in Procs |-> NoFile]
  /\ resp = [p \in Procs |-> NoResp]
  /\ wpos = [p \in Procs |-> 0]
  /\ outcome = [p \in Procs |-> NoOutcome]
  /\ ens = [p \in Procs |-> NoEns]
  /\ nGet = [p \in Procs |-> 0]
  /\ nRefresh = [p \in Procs |-> 0]
  /\ lastGet = [p \in Procs |-> NoGet]
  /\ pre = [p \in Procs |-> NoSnapshot]
  /\ fetchedVer = [p \in Procs |-> 0]

NoParse == [ok |-> FALSE, bucket |-> <<>>, object |-> <<>>, path |-> <<>>]
NoProbe == [stage |-> "none", s1 |-> <<>>, s2 |-> <<>>, r1 |-> NoParse, r2 |-> NoParse]

Init == InitProgram /\ probe = NoProbe

\* Time passes between calls: a call is short against the clock's unit, so
\* the clock read by a freshness check is the clock at the request it guards.
Tick ==
  /\ now < MaxTime
  /\ \A p \in Procs : ~InCall(p)
  /\ now' = now + 1
  /\ UNCHANGED <<remoteVer, sdkStore, sameFs, probe, fsVars, procVars, histVars>>

\* Somebody uploads a new version of the object.
RemoteChange ==
  /\ remoteVer < MaxVersion
  /\ remoteVer' = remoteVer + 1
  /\ UNCHANGED <<now, sdkStore, sameFs, probe, fsVars, procVars, histVars>>

\* ---------------------------------------------------------------- callers
StartCall(p, op, url, path, next) ==
  /\ pc' = [pc EXCEPT ![p] = next]
  /\ call' = [call EXCEPT ![p] = [op |-> op, url |-> url, path |-> path]]
  /\ outcome' = [outcome EXCEPT ![p] = NoOutcome]
  /\ ens' = [ens EXCEPT ![p] = NoEns]
  /\ nGet' = [nGet EXCEPT ![p] = 0]
  /\ nRefresh' = [nRefresh EXCEPT ![p] = 0]
  /\ lastGet' = [lastGet EXCEPT ![p] = NoGet]
  /\ pre' = [pre EXCEPT ![p] = Snapshot(p, path)]

\* FastGCS.new raised: there is no instance
NoInstance(p) == call[p].op = "initialize" /\ outcome[p].status = "error"

\* The caller has the result of the call; the instance is idle again and
\* keeps its token.
Finish(p) ==
  /\ pc[p] = "done"
  /\ pc' = [pc EXCEPT ![p] = IF NoInstance(p) THEN "new" ELSE "idle"]
  /\ token' = [token EXCEPT ![p] = IF NoInstance(p) THEN NoToken ELSE @]
  /\ call' = [call EXCEPT ![p] = NoCall]
  /\ etag' = [etag EXCEPT ![p] = NoEtag]
  /\ resp' = [resp EXCEPT ![p] = NoResp]
  /\ wpos' = [wpos EXCEPT ![p] = 0]
  /\ outcome' = [outcome EXCEPT ![p] = NoOutcome]
  /\ ens' = [ens EXCEPT ![p] = NoEns]
  /\ nGet' = [nGet EXCEPT ![p] = 0]
  /\ nRefresh' = [nRefresh EXCEPT ![p] = 0]
  /\ lastGet' = [lastGet EXCEPT ![p] = NoGet]
  /\ pre' = [pre EXCEPT ![p] = NoSnapshot]
  /\ UNCHANGED <<envVars, fsVars, tmpFile, fetchedVer>>

\* ------------------------------------------------------- Go implementation
\* New(): the cache root is created, no token is held.
New(p) ==
  /\ pc[p] = "new"
  /\ pc' = [pc EXCEPT ![p] = "idle"]
  /\ UNCHANGED <<envVars, fsVars, call, token, etag, tmpFile, resp, wpos, outcome,
                 ens, histVars>>

\* Open calls ensureCurrentToken and then update; Copy and Read call update.
Go_call(p, op, url) ==
  /\ pc[p] = "idle"
  /\ StartCall(p, op, url, cachePath(url).path,
               IF op = "open" THEN "g_ensure" ELSE "g_update")
  /\ UNCHANGED <<envVars, fsVars, token, etag, tmpFile, resp, wpos, fetchedVer>>

\* findTokenInCache: (nil, nil) on any read error; the JSON error when the
\* data does not unmarshal into {Token string; Expiry time.Time} (time.Time
\* accepts RFC 3339 only); the record otherwise, whatever its expiry.
findTokenInCache ==
  IF tokFile.kind = "none" \/ ~Readable(tokFile)
  THEN [tok |-> NoToken, err |-> ""]
  ELSE IF tokFile.kind = "json" /\ tokFile.fmt = "rfc3339"
  THEN [tok |-> Token(tokFile.token, tokFile.expiry), err |-> ""]
  ELSE [tok |-> NoToken, err |-> "json"]

ensureCurrentToken(p) ==
  /\ pc[p] = "g_ensure"
  /\ pc' = [pc EXCEPT ![p] = "g_update"]
  /\ IF token[p].set /\ now < token[p].expiry
     THEN /\ ens' = [ens EXCEPT ![p] = [res |-> "ok", tried |-> {}, src |-> "memory",
                                         from |-> "Open", err |-> ""]]
          /\ UNCHANGED token
     ELSE LET r == findTokenInCache
          IN IF r.err # ""
             THEN /\ ens' = [ens EXCEPT ![p] = [res |-> "fail", tried |-> {"cache"},
                                   src |-> "", from |-> "Open", err |-> "json.Unmarshal"]]
                  /\ UNCHANGED token
             ELSE IF r.tok.set
             THEN /\ token' = [token EXCEPT ![p] = r.tok]
                  /\ ens' = [ens EXCEPT ![p] = [res |-> "ok", tried |-> {"cache"},
                                   src |-> "cache", from |-> "Open", err |-> ""]]
             ELSE /\ ens' = [ens EXCEPT ![p] = [res |-> "fail", tried |-> {"cache"},
                                   src |-> "", from |-> "Open",
                                   err |-> "CredentialUnavailable"]]
                  /\ UNCHANGED token
  /\ UNCHANGED <<envVars, fsVars, call, etag, tmpFile, resp, wpos, outcome, histVars>>

\* update, up to client.Do: the path and the URL are computed, the request
\* carries f.token.Token (a nil f.token panics) and no conditional header.
Go_update(p) ==
  /\ pc[p] = "g_update"
  /\ IF ~cachePath(call[p].url).ok
     THEN /\ pc' = [pc EXCEPT ![p] = "done"]
          /\ outcome' = [outcome EXCEPT ![p] = Error("InvalidReference")]
          /\ UNCHANGED <<resp, nGet, lastGet>>
     ELSE IF ~token[p].set
     THEN /\ pc' = [pc EXCEPT ![p] = "crashed"]
          /\ outcome' = [outcome EXCEPT ![p] = Panic]
          /\ UNCHANGED <<resp, nGet, lastGet>>
     ELSE /\ nGet' = [nGet EXCEPT ![p] = @ + 1]
          /\ lastGet' = [lastGet EXCEPT ![p] =
                           [sent |-> TRUE, token |-> token[p], at |-> now, inm |-> NoEtag]]
          /\ \/ /\ pc' = [pc EXCEPT ![p] = "done"]
                /\ outcome' = [outcome EXCEPT ![p] = Error("network")]
                /\ UNCHANGED resp
             \/ \E r \in ServerResponses(remoteVer, NoEtag) :
                  /\ resp' = [resp EXCEPT ![p] = r]
                  /\ pc' = [pc EXCEPT ![p] = "g_open"]
                  /\ UNCHANGED outcome
  /\ UNCHANGED <<envVars, fsVars, call, token, etag, tmpFile, wpos, ens, nRefresh,
                 pre, fetchedVer>>

\* os.OpenFile(path, O_WRONLY|O_CREATE, 0644): an existing file keeps its
\* bytes; an open that fails returns the error
Go_openDst(p) ==
  /\ pc[p] = "g_open"
  /\ \/ /\ pc' = [pc EXCEPT ![p] = "g_copy"]
        /\ wpos' = [wpos EXCEPT ![p] = 0]
        /\ objFile' = [objFile EXCEPT ![call[p].path] = IF @.exists THEN @ ELSE File(<<>>)]
        /\ UNCHANGED outcome
     \/ /\ pc' = [pc EXCEPT ![p] = "done"]
        /\ outcome' = [outcome EXCEPT ![p] = Error("LocalIOError")]
        /\ UNCHANGED <<wpos, objFile>>
  /\ UNCHANGED <<envVars, tokFile, etagFile, call, token, etag, tmpFile, resp, ens,
                 histVars>>

WriteAt(data, i, b) ==
  IF i <= Len(data) THEN [data EXCEPT ![i] = b] ELSE Append(data, b)

\* io.Copy(dst, res.Body): the body's bytes, whatever the status, are written
\* one after the other from offset 0; a read error ends the call.
Go_ioCopy(p) ==
  /\ pc[p] = "g_copy"
  /\ wpos[p] < Len(resp[p].body)
  /\ \/ /\ objFile' = [objFile EXCEPT ![call[p].path].data =
                         WriteAt(@, wpos[p] + 1, resp[p].body[wpos[p] + 1])]
        /\ wpos' = [wpos EXCEPT ![p] = @ + 1]
        /\ UNCHANGED <<pc, outcome>>
     \/ /\ pc' = [pc EXCEPT ![p] = "done"]
        /\ outcome' = [outcome EXCEPT ![p] = Error("network")]
        /\ UNCHANGED <<objFile, wpos>>
  /\ UNCHANGED <<envVars, tokFile, etagFile, call, token, etag, tmpFile, resp, ens,
                 histVars>>

\* update returns the path; Open opens it, Copy copies it, Read reads it.
Go_return(p) ==
  /\ pc[p] = "g_copy"
  /\ wpos[p] = Len(resp[p].body)
  /\ pc' = [pc EXCEPT ![p] = "done"]
  /\ outcome' = [outcome EXCEPT ![p] = Ok(objFile[call[p].path].data)]
  /\ fetchedVer' = [fetchedVer EXCEPT ![p] =
                      IF resp[p].status = 200 THEN resp[p].etag[1] ELSE 0]
  /\ UNCHANGED <<envVars, fsVars, call, token, etag, tmpFile, resp, wpos, ens, nGet,
                 nRefresh, lastGet, pre>>

GoStep(p) ==
  \/ New(p)
  \/ \E op \in Ops, url \in URLs : Go_call(p, op, url)
  \/ ensureCurrentToken(p)
  \/ Go_update(p)
  \/ Go_openDst(p)
  \/ Go_ioCopy(p)
  \/ Go_return(p)
  \/ Finish(p)

InitGo == Init /\ sdkStore = SdkMissing /\ sameFs

NextGo == Tick \/ RemoteChange \/ \E p \in GoProcs : GoStep(p)

SpecGo == InitGo /\ [][NextGo]_vars

\* ----------------------------------------------------- Ruby implementation
\* An exception leaves the call: the Dir.mktmpdir block removes its
\* directory on the way out.
\* A variant of Raise: the exception leaves the temporary file behind.
Raise_leavingTemp(p, o) ==
  /\ pc' = [pc EXCEPT ![p] = "done"]
  /\ outcome' = [outcome EXCEPT ![p] = o]
  /\ UNCHANGED tmpFile

Raise(p, o) ==
  /\ pc' = [pc EXCEPT ![p] = "done"]
  /\ outcome' = [outcome EXCEPT ![p] = o]
  /\ tmpFile' = [tmpFile EXCEPT ![p] = NoFile]

\* initialize: mkdir_p(CACHE), load_credentials (credentials.db holds the
\* client id, secret and refresh token), ensure_current_token.
initialize(p) ==
  /\ pc[p] = "new"
  /\ StartCall(p, "initialize", <<>>, <<>>, "ensure")
  /\ UNCHANGED <<envVars, fsVars, token, etag, tmpFile, resp, wpos, fetchedVer>>

\* Ruby: url.match(%r{^gs://([^/]+)/(.*)$}): ^ and $ anchor a line, so the
\* first line of the string that matches is taken.
RECURSIVE MatchLineFrom(_, _)
MatchLineFrom(url, i) ==
  IF i > Len(url) THEN NoMatch
  ELSE LET \* [^/]+ may run over line ends; (.*) stops at the first one
           sl == IndexFrom(url, "/", i + Len(Str_gs))
           end == IF sl = 0 THEN 0 ELSE IndexFrom(url, "\n", sl)
           m == MatchAt(url, i, IF end = 0 THEN Len(url) + 1 ELSE end)
           nl == IndexFrom(url, "\n", i)
       IN IF m.ok THEN m
          ELSE IF nl = 0 THEN NoMatch
          ELSE MatchLineFrom(url, nl + 1)

parse_gs_url(url) == MatchLineFrom(url, 1)

\* File.join(CACHE, "#{bucket}--#{object.tr('/', '-')}")
cache_path(url) ==
  LET m == parse_gs_url(url)
  IN [ok |-> m.ok,
      path |-> IF m.ok THEN m.bucket \o <<"-", "-">> \o ReplaceAll(m.object, "/", "-")
               ELSE <<>>]

\* open, cp and read: path = update(url)
Rb_call(p, op, url) ==
  /\ pc[p] = "idle"
  /\ StartCall(p, op, url, cache_path(url).path, "update")
  /\ UNCHANGED <<envVars, fsVars, token, etag, tmpFile, resp, wpos, fetchedVer>>

\* update: cache_path raises ArgumentError on a string that is no gs:// URL
update(p) ==
  /\ pc[p] = "update"
  /\ IF cache_path(call[p].url).ok
     THEN /\ pc' = [pc EXCEPT ![p] = "update_http"]
          /\ UNCHANGED <<outcome, tmpFile>>
     ELSE Raise(p, Error("InvalidReference"))
  /\ UNCHANGED <<envVars, fsVars, call, token, etag, resp, wpos, ens, histVars>>

\* update_http, up to the call of get: the sidecar is read (nil when it does
\* not exist) and the temporary file is created in a fresh directory.
update_http(p) ==
  /\ pc[p] = "update_http"
  /\ etag' = [etag EXCEPT ![p] =
                IF etagFile[call[p].path].exists
                THEN [set |-> TRUE, val |-> etagFile[call[p].path].data]
                ELSE NoEtag]
  /\ tmpFile' = [tmpFile EXCEPT ![p] = File(<<>>)]
  /\ pc' = [pc EXCEPT ![p] = "ensure"]
  /\ ens' = [ens EXCEPT ![p] = [NoEns EXCEPT !.from = "get"]]
  /\ UNCHANGED <<envVars, fsVars, call, token, resp, wpos, outcome, histVars>>

\* where ensure_current_token returns to
AfterEnsure(p) == IF call[p].op = "initialize" THEN "done" ELSE "send"

\* ensure_current_token: return if @token && @expiry > Time.now
ensure_current_token(p) ==
  /\ pc[p] = "ensure"
  /\ IF token[p].set /\ token[p].expiry > now
     THEN /\ pc' = [pc EXCEPT ![p] = AfterEnsure(p)]
          /\ ens' = [ens EXCEPT ![p].res = "ok", ![p].src = "memory"]
          /\ outcome' = [outcome EXCEPT ![p] =
                           IF call[p].op = "initialize" THEN Ok(<<>>) ELSE @]
     ELSE /\ pc' = [pc EXCEPT ![p] = "tier1"]
          /\ ens' = [ens EXCEPT ![p].res = "run"]
          /\ UNCHANGED outcome
  /\ UNCHANGED <<envVars, fsVars, call, token, etag, tmpFile, resp, wpos, histVars>>

\* try_access_token_from_cache: Errno::ENOENT is rescued; any other error of
\* File.read, JSON.parse, fetch or Time.parse is raised.  Time.parse reads
\* both timestamp formats.
CacheReadError ==
  IF tokFile.kind = "none" THEN ""
  ELSE IF ~Readable(tokFile) THEN "Errno::EACCES"
  ELSE IF tokFile.kind # "json" THEN "JSON::ParserError"
  ELSE ""

try_access_token_from_cache(p) ==
  /\ pc[p] = "tier1"
  /\ ens' = [ens EXCEPT ![p].tried = @ \cup {"cache"},
                        ![p].src = IF tokFile.kind = "json" /\ Readable(tokFile)
                                      /\ tokFile.expiry > now
                                   THEN "cache" ELSE @,
                        ![p].res = IF CacheReadError = "" THEN @ ELSE "fail",
                        ![p].err = CacheReadError]
  /\ IF tokFile.kind = "none"
     THEN /\ pc' = [pc EXCEPT ![p] = "tier2"]
          /\ UNCHANGED <<token, outcome, tmpFile>>
     ELSE IF ~Readable(tokFile)
     THEN Raise(p, Error("Errno::EACCES")) /\ UNCHANGED token
     ELSE IF tokFile.kind # "json"
     THEN Raise(p, Error("JSON::ParserError")) /\ UNCHANGED token
     ELSE IF tokFile.expiry > now
     THEN /\ token' = [token EXCEPT ![p] = Token(tokFile.token, tokFile.expiry)]
          /\ pc' = [pc EXCEPT ![p] = "update_cache"]
          /\ UNCHANGED <<outcome, tmpFile>>
     ELSE /\ pc' = [pc EXCEPT ![p] = "tier2"]
          /\ UNCHANGED <<token, outcome, tmpFile>>
  /\ UNCHANGED <<envVars, fsVars, call, etag, resp, wpos, histVars>>

\* try_access_token_from_gcloud_db: File.read raises Errno::ENOENT when
\* access_tokens.db does not exist (nothing rescues it); no match of the
\* marker pattern, or an expired row, is false.
try_access_token_from_gcloud_db(p) ==
  /\ pc[p] = "tier2"
  /\ ens' = [ens EXCEPT ![p].tried = @ \cup {"sdk"},
                        ![p].src = IF sdkStore.kind = "row" /\ sdkStore.expiry > now
                                   THEN "sdk" ELSE @,
                        ![p].res = IF sdkStore.kind = "missing" THEN "fail" ELSE @,
                        ![p].err = IF sdkStore.kind = "missing" THEN "Errno::ENOENT" ELSE @]
  /\ IF sdkStore.kind = "missing"
     THEN Raise(p, Error("Errno::ENOENT")) /\ UNCHANGED token
     ELSE IF sdkStore.kind = "row" /\ sdkStore.expiry > now
     THEN /\ token' = [token EXCEPT ![p] = Token(sdkStore.token, sdkStore.expiry)]
          /\ pc' = [pc EXCEPT ![p] = "update_cache"]
          /\ UNCHANGED <<outcome, tmpFile>>
     ELSE /\ pc' = [pc EXCEPT ![p] = "tier3"]
          /\ UNCHANGED <<token, outcome, tmpFile>>
  /\ UNCHANGED <<envVars, fsVars, call, etag, resp, wpos, histVars>>

\* refresh_access_token: one POST to oauth2.googleapis.com/token; a status
\* other than 200 raises; @expiry = Time.now + expires_in.
refresh_access_token(p) ==
  /\ pc[p] = "tier3"
  /\ nRefresh' = [nRefresh EXCEPT ![p] = @ + 1]
  /\ \/ /\ Raise(p, Error("RefreshFailed"))
        /\ ens' = [ens EXCEPT ![p].tried = @ \cup {"refresh"}, ![p].res = "fail",
                              ![p].err = "RefreshFailed"]
        /\ UNCHANGED token
     \/ \E expires_in \in 1..MaxExpiresIn :
          /\ token' = [token EXCEPT ![p] = Token("r", now + expires_in)]
          /\ ens' = [ens EXCEPT ![p].tried = @ \cup {"refresh"}, ![p].src = "refresh"]
          /\ pc' = [pc EXCEPT ![p] = "update_cache"]
          /\ UNCHANGED <<outcome, tmpFile>>
  /\ UNCHANGED <<envVars, fsVars, call, etag, resp, wpos, nGet, lastGet, pre,
                 fetchedVer>>

\* { token: @token, expiry: @expiry }.to_json: Time#to_json is Time#to_s
to_json(tok, mode) == JsonFile("rubytime", tok.value, tok.expiry, mode)

\* update_cache, File.write: the file is opened with O_CREAT|O_TRUNC (a new
\* file gets 0666 less the umask 022) ...
update_cache(p) ==
  /\ pc[p] = "update_cache"
  /\ IF tokFile.kind # "none" /\ ~Readable(tokFile)
     THEN /\ Raise(p, Error("Errno::EACCES"))
          /\ ens' = [ens EXCEPT ![p].res = "fail", ![p].err = "Errno::EACCES"]
          /\ UNCHANGED tokFile
     ELSE /\ tokFile' = [NoTokFile EXCEPT !.kind = "empty",
                           !.mode = IF tokFile.kind = "none" THEN "0644" ELSE tokFile.mode]
          /\ pc' = [pc EXCEPT ![p] = "update_cache_write"]
          /\ UNCHANGED <<outcome, tmpFile, ens>>
  /\ UNCHANGED <<envVars, objFile, etagFile, call, token, etag, resp, wpos, histVars>>

\* ... and the record is written into it.
update_cache_write(p) ==
  /\ pc[p] = "update_cache_write"
  /\ tokFile' = to_json(token[p], tokFile.mode)
  /\ pc' = [pc EXCEPT ![p] = "update_cache_open"]
  /\ UNCHANGED <<envVars, objFile, etagFile, call, token, etag, tmpFile, resp, wpos,
                 outcome, ens, histVars>>

\* update_cache, File.open(CREDENTIAL_CACHE, WRONLY|CREAT, 0600): the file
\* exists, so the mode is not applied; the record is written over the bytes
\* from offset 0 (records are of one length).
update_cache_open(p) ==
  /\ pc[p] = "update_cache_open"
  /\ tokFile' = to_json(token[p], tokFile.mode)
  /\ pc' = [pc EXCEPT ![p] = AfterEnsure(p)]
  /\ ens' = [ens EXCEPT ![p].res = "ok"]
  /\ outcome' = [outcome EXCEPT ![p] = IF call[p].op = "initialize" THEN Ok(<<>>) ELSE @]
  /\ UNCHANGED <<envVars, objFile, etagFile, call, token, etag, tmpFile, resp, wpos,
                 histVars>>

\* get, the request: Authorization: Bearer @token, If-None-Match: etag if etag
\* A variant of get: a request that fails on the network is sent once more.
get_retrying(p) ==
  /\ pc[p] = "send"
  /\ nGet' = [nGet EXCEPT ![p] = @ + 1]
  /\ lastGet' = [lastGet EXCEPT ![p] =
                   [sent |-> TRUE, token |-> token[p], at |-> now, inm |-> etag[p]]]
  /\ \/ /\ nGet[p] = 0
        /\ UNCHANGED <<pc, outcome, tmpFile, resp>>
     \/ /\ nGet[p] > 0
        /\ Raise(p, Error("network")) /\ UNCHANGED resp
     \/ \E r \in ServerResponses(remoteVer, etag[p]) :
          /\ resp' = [resp EXCEPT ![p] = r]
          /\ pc' = [pc EXCEPT ![p] = "recv"]
          /\ UNCHANGED <<outcome, tmpFile>>
  /\ UNCHANGED <<envVars, fsVars, call, token, etag, wpos, ens, nRefresh, pre,
                 fetchedVer>>

get(p) ==
  /\ pc[p] = "send"
  /\ nGet' = [nGet EXCEPT ![p] = @ + 1]
  /\ lastGet' = [lastGet EXCEPT ![p] =
                   [sent |-> TRUE, token |-> token[p], at |-> now, inm |-> etag[p]]]
  /\ \/ Raise(p, Error("network")) /\ UNCHANGED resp
     \/ \E r \in ServerResponses(remoteVer, etag[p]) :
          /\ resp' = [resp EXCEPT ![p] = r]
          /\ pc' = [pc EXCEPT ![p] = "recv"]
          /\ UNCHANGED <<outcome, tmpFile>>
  /\ UNCHANGED <<envVars, fsVars, call, token, etag, wpos, ens, nRefresh, pre,
                 fetchedVer>>

\* get, the response: 200 streams the body into the temporary file and
\* returns the ETag; 304 returns nil; any other status raises.
get_response(p) ==
  /\ pc[p] = "recv"
  /\ IF resp[p].status = 200
     THEN \/ /\ tmpFile' = [tmpFile EXCEPT ![p] = File(resp[p].body)]
             /\ pc' = [pc EXCEPT ![p] = "mv"]
             /\ UNCHANGED outcome
          \/ Raise(p, Error("network"))
     ELSE IF resp[p].status = 304
     THEN /\ pc' = [pc EXCEPT ![p] = "ret"]
          /\ UNCHANGED <<outcome, tmpFile>>
     ELSE Raise(p, HttpError(resp[p].status))
  /\ UNCHANGED <<envVars, fsVars, call, token, etag, resp, wpos, ens, histVars>>

\* A variant of mv: File.write(etag_path(path), new_etag) first, and the
\* rename after it.
mv_sidecarFirst(p) ==
  /\ pc[p] = "mv"
  /\ IF etagFile[call[p].path] # File(resp[p].etag)
     THEN /\ etagFile' = [etagFile EXCEPT ![call[p].path] = File(resp[p].etag)]
          /\ UNCHANGED <<objFile, tmpFile, pc>>
     ELSE /\ objFile' = [objFile EXCEPT ![call[p].path] = File(tmpFile[p].data)]
          /\ tmpFile' = [tmpFile EXCEPT ![p] = NoFile]
          /\ pc' = [pc EXCEPT ![p] = "ret"]
          /\ UNCHANGED etagFile
  /\ UNCHANGED <<envVars, tokFile, call, token, etag, resp, wpos, outcome, ens, histVars>>

\* A variant of mv: a rename that fails is not noticed and the call goes on.
mv_failureIgnored(p) ==
  /\ pc[p] = "mv"
  /\ \/ /\ objFile' = [objFile EXCEPT ![call[p].path] = File(tmpFile[p].data)]
        /\ tmpFile' = [tmpFile EXCEPT ![p] = NoFile]
     \/ UNCHANGED <<objFile, tmpFile>>
  /\ pc' = [pc EXCEPT ![p] = "etag_open"]
  /\ UNCHANGED <<envVars, tokFile, etagFile, call, token, etag, resp, wpos, outcome, ens,
                 histVars>>

\* FileUtils.mv(file, path): File.rename; across file systems (Errno::EXDEV)
\* the destination is opened 'wb', which truncates it, and copied into.  A
\* rename or an open that fails raises.
mv(p) ==
  /\ pc[p] = "mv"
  /\ \/ /\ sameFs
        /\ objFile' = [objFile EXCEPT ![call[p].path] = File(tmpFile[p].data)]
        /\ tmpFile' = [tmpFile EXCEPT ![p] = NoFile]
        /\ pc' = [pc EXCEPT ![p] = "etag_open"]
        /\ UNCHANGED <<wpos, outcome>>
     \/ /\ ~sameFs
        /\ objFile' = [objFile EXCEPT ![call[p].path] = File(<<>>)]
        /\ wpos' = [wpos EXCEPT ![p] = 0]
        /\ pc' = [pc EXCEPT ![p] = "mv_copy"]
        /\ UNCHANGED <<tmpFile, outcome>>
     \/ /\ Raise(p, Error("LocalIOError"))
        /\ UNCHANGED <<objFile, wpos>>
  /\ UNCHANGED <<envVars, tokFile, etagFile, call, token, etag, resp, ens, histVars>>

\* the copy of FileUtils.mv, one chunk at a time, then the source is removed
mv_copy(p) ==
  /\ pc[p] = "mv_copy"
  /\ IF wpos[p] < Len(tmpFile[p].data)
     THEN /\ objFile' = [objFile EXCEPT ![call[p].path].data =
                           WriteAt(@, wpos[p] + 1, tmpFile[p].data[wpos[p] + 1])]
          /\ wpos' = [wpos EXCEPT ![p] = @ + 1]
          /\ UNCHANGED <<pc, tmpFile>>
     ELSE /\ tmpFile' = [tmpFile EXCEPT ![p] = NoFile]
          /\ pc' = [pc EXCEPT ![p] = "etag_open"]
          /\ UNCHANGED <<objFile, wpos>>
  /\ UNCHANGED <<envVars, tokFile, etagFile, call, token, etag, resp, outcome, ens,
                 histVars>>

\* File.write(etag_path(path), new_etag): the sidecar is opened with
\* O_CREAT|O_TRUNC ...
write_etag_open(p) ==
  /\ pc[p] = "etag_open"
  /\ \/ /\ etagFile' = [etagFile EXCEPT ![call[p].path] = File(<<>>)]
        /\ pc' = [pc EXCEPT ![p] = "etag_write"]
        /\ UNCHANGED <<tmpFile, outcome>>
     \/ /\ Raise(p, Error("LocalIOError"))
        /\ UNCHANGED etagFile
  /\ UNCHANGED <<envVars, tokFile, objFile, call, token, etag, resp, wpos, ens,
                 histVars>>

\* ... and the ETag of the response is written into it.
write_etag(p) ==
  /\ pc[p] = "etag_write"
  /\ etagFile' = [etagFile EXCEPT ![call[p].path] = File(resp[p].etag)]
  /\ pc' = [pc EXCEPT ![p] = "ret"]
  /\ UNCHANGED <<envVars, tokFile, objFile, call, token, etag, tmpFile, resp, wpos,
                 outcome, ens, histVars>>

\* update_http and update return (the temporary directory is removed); open
\* opens the path, cp copies it, read reads it: Errno::ENOENT when there is
\* no such file.
Rb_return(p) ==
  /\ pc[p] = "ret"
  /\ tmpFile' = [tmpFile EXCEPT ![p] = NoFile]
  /\ pc' = [pc EXCEPT ![p] = "done"]
  /\ outcome' = [outcome EXCEPT ![p] =
                   IF objFile[call[p].path].exists
                   THEN Ok(objFile[call[p].path].data)
                   ELSE Error("Errno::ENOENT")]
  /\ fetchedVer' = [fetchedVer EXCEPT ![p] = resp[p].etag[1]]
  /\ UNCHANGED <<envVars, fsVars, call, token, etag, resp, wpos, ens, nGet, nRefresh,
                 lastGet, pre>>

RbStep(p) ==
  \/ initialize(p)
  \/ \E op \in Ops, url \in URLs : Rb_call(p, op, url)
  \/ update(p)
  \/ update_http(p)
  \/ ensure_current_token(p)
  \/ try_access_token_from_cache(p)
  \/ try_access_token_from_gcloud_db(p)
  \/ refresh_access_token(p)
  \/ update_cache(p)
  \/ update_cache_write(p)
  \/ update_cache_open(p)
  \/ get(p)
  \/ get_response(p)
  \/ mv(p)
  \/ mv_copy(p)
  \/ write_etag_open(p)
  \/ write_etag(p)
  \/ Rb_return(p)
  \/ Finish(p)

NextRuby == Tick \/ RemoteChange \/ \E p \in RubyProcs : RbStep(p)

SpecRuby == Init /\ [][NextRuby]_vars

\* ================================================================ claims
Usable(tok, t) == tok.set /\ tok.expiry > t
Path(p) == call[p].path
Fetching(p) == call[p].path \in Paths
Returned(p) == pc[p] = "done" /\ outcome[p].status = "ok" /\ Fetching(p)
CorruptErrs == {"Errno::EACCES", "JSON::ParserError", "json.Unmarshal"}
AllTiers == {"cache", "sdk", "refresh"}

\* C1: a storage GET is sent only with a bearer token whose expiry is
\* strictly later than the time of the request, and a token taken from the
\* durable token cache is not expired when it is installed.
C1_TokenFreshAtUse ==
  \A p \in Procs :
    /\ lastGet[p].sent => Usable(lastGet[p].token, lastGet[p].at)
    /\ ens[p].src = "cache" => Usable(token[p], now)

\* C2: when token resolution fails the call ends there with an error and
\* without a storage GET; no call goes on, or dies, with an absent token.
C2_NoOperationWithoutToken ==
  \A p \in Procs :
    /\ ens[p].res = "fail" =>
         pc[p] = "done" /\ outcome[p].status = "error" /\ nGet[p] = 0
    /\ outcome[p].status # "panic"
    /\ lastGet[p].sent => lastGet[p].token.set

\* C3: the tiers are tried in the order cache, SDK store, refresh; the first
\* tier that yields a token ends the resolution; a refresh is requested only
\* after both earlier tiers yielded nothing; a tier that finds nothing (a
\* missing file, no match, an expired entry) raises no error of its own, so a
\* resolution that fails for want of a token has tried all three tiers.
C3_ResolutionOrder ==
  \A p \in Procs :
    /\ "sdk" \in ens[p].tried => "cache" \in ens[p].tried
    /\ "refresh" \in ens[p].tried => {"cache", "sdk"} \subseteq ens[p].tried
    /\ ens[p].src = "memory" => ens[p].tried = {}
    /\ ens[p].src = "cache" => ens[p].tried = {"cache"}
    /\ ens[p].src = "sdk" => ens[p].tried = {"cache", "sdk"}
    /\ nRefresh[p] > 0 => ens[p].tried = AllTiers
    /\ (ens[p].res = "fail" /\ ens[p].err \notin CorruptErrs) => ens[p].tried = AllTiers

\* the durable cache holds no usable record / the SDK store yields no token
CacheEmptyOrExpired(f) == f.kind = "none" \/ (f.kind = "json" /\ Readable(f) /\ f.expiry <= now)
SdkYieldsNothing == sdkStore.kind # "row" \/ sdkStore.expiry <= now
Resolved(p) == ens[p].res \in {"ok", "fail"} /\ ens[p].src # "memory"

\* C4: a resolution that finds the durable cache empty or expired and no
\* usable token in the SDK store sends exactly one refresh request, and when
\* it succeeds the token expires at now + expires_in and is the record in
\* the durable cache; a resolution that finds a valid token in memory sends
\* none and leaves the token alone.
C4_RefreshOnceAndPersist ==
  \A p \in RubyProcs :
    /\ (Resolved(p) /\ CacheEmptyOrExpired(pre[p].tok) /\ SdkYieldsNothing) =>
         /\ nRefresh[p] = 1
         /\ ens[p].res = "ok" =>
              /\ token[p].expiry \in {now + e : e \in 1..MaxExpiresIn}
              /\ tokFile.kind = "json" /\ tokFile.token = token[p].value
              /\ tokFile.expiry = token[p].expiry
    /\ ens[p].src = "memory" => nRefresh[p] = 0 /\ Usable(token[p], now)

\* C4 with the SDK store present: the same statement for an access_tokens.db
\* that exists and holds no usable row.
C4_WithSdkStorePresent ==
  sdkStore.kind # "missing" => C4_RefreshOnceAndPersist

\* C5: after a call that received a 200 response and returned successfully
\* the cached file holds exactly the body of the response and the sidecar
\* holds its ETag.
C5_ContentFetchResult ==
  \A p \in Procs :
    (Returned(p) /\ resp[p].status = 200) =>
      /\ objFile[Path(p)] = File(resp[p].body)
      /\ etagFile[Path(p)] = File(resp[p].etag)

\* the cache entry of the call is as it was when the call began
EntryUntouched(p) == objFile[Path(p)] = pre[p].obj /\ etagFile[Path(p)] = pre[p].etag
\* the process fetched this version before and the object has not changed
FetchedBefore(p) == Fetching(p) /\ pre[p].fetched = remoteVer

\* C6: when a process fetches again a reference whose remote object is the
\* version it fetched before, the request carries the sidecar ETag as
\* If-None-Match, the storage answers 304 (if it answers 200 or 304 at all),
\* the cached file and the sidecar are written at no step, and the call
\* returns successfully.
C6_ConditionalFetchIdempotent ==
  \A p \in Procs :
    FetchedBefore(p) =>
      /\ EntryUntouched(p)
      /\ lastGet[p].sent => lastGet[p].inm = [set |-> TRUE, val |-> ETag(remoteVer)]
      /\ resp[p].status \in {200, 304} => resp[p].status = 304
      /\ (pc[p] = "done" /\ resp[p].status = 304) => outcome[p].status = "ok"

\* C7: a response with a status other than 200 and 304 leaves the cached
\* file and the sidecar as they were before the call, and the call fails
\* with a remote-fetch error carrying that status.
C7_OtherStatusFails ==
  \A p \in Procs :
    resp[p].status \in ErrStatuses =>
      /\ EntryUntouched(p)
      /\ pc[p] = "done" => outcome[p] = HttpError(resp[p].status)

\* the complete bytes of some version of the object
CompleteVersions == {Body(v) : v \in 1..MaxVersion}

\* C8: at every step the cached file, if it exists, holds the complete bytes
\* of one version of the object: a reader never finds it empty, truncated
\* or mixed.
C8_NoPartialObjectVisible ==
  \A x \in Paths : objFile[x].exists => objFile[x].data \in CompleteVersions

\* C9: while a process stores its token the token cache file is, at every
\* step, the complete record found before or the complete new record, and a
\* file created by the store has owner-only permissions.
C9_TokenStoreAtomicPrivate ==
  \A p \in RubyProcs :
    InCall(p) =>
      /\ tokFile = pre[p].tok \/ tokFile = to_json(token[p], tokFile.mode)
      /\ (pre[p].tok.kind = "none" /\ tokFile.kind # "none") => tokFile.mode = "0600"

\* C10: a resolution that reads the token cache treats a file that does not
\* exist as absent, without an error of the cache; a file that cannot be
\* read or is not JSON ends the resolution, and the call, with a
\* cache-corrupt error.
C10_LoadOutcomes ==
  \A p \in Procs :
    "cache" \in ens[p].tried =>
      /\ pre[p].tok.kind = "none" => ens[p].err \notin CorruptErrs
      /\ (pre[p].tok.kind # "none" /\ (~Readable(pre[p].tok) \/ pre[p].tok.kind # "json")) =>
           /\ ens[p].res = "fail" /\ ens[p].err \in CorruptErrs
           /\ pc[p] \in {"done", "crashed"}
           /\ outcome[p].status = "error" /\ outcome[p].err \in CorruptErrs

\* ------------------------------------------------------ crash and restart
\* The Ruby process is killed in the middle of a call: nothing more of the
\* call runs, so the Dir.mktmpdir block never removes its directory.
Crash(p) ==
  /\ InCall(p) /\ pc[p] # "done"
  /\ pc' = [pc EXCEPT ![p] = "crashed"]
  /\ UNCHANGED <<envVars, fsVars, call, token, etag, tmpFile, resp, wpos, outcome, ens,
                 histVars>>

\* A new process takes its place.  The leftover temporary directory has a
\* random name of its own and no later call looks at it.
Restart(p) ==
  /\ pc[p] = "crashed"
  /\ pc' = [pc EXCEPT ![p] = "new"]
  /\ token' = [token EXCEPT ![p] = NoToken]
  /\ call' = [call EXCEPT ![p] = NoCall]
  /\ etag' = [etag EXCEPT ![p] = NoEtag]
  /\ tmpFile' = [tmpFile EXCEPT ![p] = NoFile]
  /\ resp' = [resp EXCEPT ![p] = NoResp]
  /\ wpos' = [wpos EXCEPT ![p] = 0]
  /\ outcome' = [outcome EXCEPT ![p] = NoOutcome]
  /\ ens' = [ens EXCEPT ![p] = NoEns]
  /\ nGet' = [nGet EXCEPT ![p] = 0]
  /\ nRefresh' = [nRefresh EXCEPT ![p] = 0]
  /\ lastGet' = [lastGet EXCEPT ![p] = NoGet]
  /\ pre' = [pre EXCEPT ![p] = NoSnapshot]
  /\ UNCHANGED <<envVars, fsVars, fetchedVer>>

NextRubyCrash ==
  \/ Tick
  \/ RemoteChange
  \/ \E p \in RubyProcs : RbStep(p)
  \/ \E p \in RubyProcs : Crash(p)
  \/ \E p \in RubyProcs : Restart(p)

SpecRubyCrash == Init /\ [][NextRubyCrash]_vars

\* --------------------------------------------- two concurrent Ruby fetches
\* Two Ruby processes fetch gs://b/k out of one cache directory, each
\* finding a usable record in the token cache; the temporary directory is
\* on the cache's file system.
InitRuby2 ==
  /\ Init
  /\ tokFile = JsonFile("rubytime", "c", MaxTime - 1, "0600")
  /\ sdkStore = SdkNoMatch
  /\ sameFs

RbStep2(p) ==
  \/ initialize(p)
  \/ Rb_call(p, "open", URL_ok)
  \/ update(p)
  \/ update_http(p)
  \/ ensure_current_token(p)
  \/ try_access_token_from_cache(p)
  \/ update_cache(p)
  \/ update_cache_write(p)
  \/ update_cache_open(p)
  \/ get(p)
  \/ get_response(p)
  \/ mv(p)
  \/ write_etag_open(p)
  \/ write_etag(p)
  \/ Rb_return(p)
  \/ Finish(p)

NextRuby2 == RemoteChange \/ \E p \in RubyProcs2 : RbStep2(p)

SpecRuby2 == InitRuby2 /\ [][NextRuby2]_vars

\* ------------------------------------------------ the parsers on their own
\* References under test: up to MaxLen characters after the scheme; the
\* first also without the scheme, or with a line in front of it.
Alphabet == {"b", "/", "-", "\n"}
Strs(A, n) == UNION {[1..k -> A] : k \in 0..n}
Framings == {Str_gs, <<>>, <<"b", "\n">> \o Str_gs}
ProbeInputs ==
  {[stage |-> "in", s1 |-> f \o a, s2 |-> Str_gs \o b, r1 |-> NoParse, r2 |-> NoParse] :
     f \in Framings, a \in Strs(Alphabet, MaxLen), b \in Strs(Alphabet \ {"\n"}, MaxLen)}

Parsed(m, c) == [ok |-> m.ok, bucket |-> m.bucket, object |-> m.object, path |-> c.path]

\* parseGSURL and cachePath on both references
ApplyGo ==
  /\ probe.stage = "in"
  /\ probe' = [probe EXCEPT !.stage = "go",
                            !.r1 = Parsed(parseGSURL(probe.s1), cachePath(probe.s1)),
                            !.r2 = Parsed(parseGSURL(probe.s2), cachePath(probe.s2))]
  /\ UNCHANGED <<now, remoteVer, sdkStore, sameFs, fsVars, procVars, histVars>>

\* parse_gs_url and cache_path on both references
ApplyRuby ==
  /\ probe.stage = "in"
  /\ probe' = [probe EXCEPT !.stage = "ruby",
                            !.r1 = Parsed(parse_gs_url(probe.s1), cache_path(probe.s1)),
                            !.r2 = Parsed(parse_gs_url(probe.s2), cache_path(probe.s2))]
  /\ UNCHANGED <<now, remoteVer, sdkStore, sameFs, fsVars, procVars, histVars>>

InitPure ==
  /\ InitProgram
  /\ tokFile = NoTokFile /\ sdkStore = SdkMissing /\ sameFs
  /\ probe \in ProbeInputs
NextPure == ApplyGo \/ ApplyRuby
SpecPure == InitPure /\ [][NextPure]_vars

\* C11: a call that ends with an error of any kind leaves the cached file,
\* its sidecar and the token cache exactly as they were when the call began,
\* and an invalid reference fails before any storage GET.
C11_ErrorsLeaveLastKnownGood ==
  \A p \in Procs :
    (pc[p] = "done" /\ outcome[p].status = "error" /\ call[p].op \in Ops) =>
      /\ tokFile = pre[p].tok
      /\ Fetching(p) => EntryUntouched(p)
      /\ outcome[p].err = "InvalidReference" => nGet[p] = 0

\* the call found a usable record in the token cache and no cache entry
FirstFetch(p) ==
  /\ Fetching(p)
  /\ ~pre[p].obj.exists /\ ~pre[p].etag.exists
  /\ pre[p].tok.kind = "json" /\ Readable(pre[p].tok) /\ pre[p].tok.expiry > now

\* C12: a call for a valid reference that begins with a valid cached token
\* and no cache entry, and is answered 200, sends one storage GET without a
\* conditional header, creates the cache file and its sidecar, and hands
\* the caller exactly the bytes downloaded.
C12_FirstFetch ==
  \A p \in Procs :
    /\ (FirstFetch(p) /\ pc[p] = "done" /\ resp[p].status = 200
          /\ outcome[p].status # "error") =>
         /\ nGet[p] = 1 /\ ~lastGet[p].inm.set
         /\ objFile[Path(p)] = File(resp[p].body)
         /\ etagFile[Path(p)] = File(resp[p].etag)
         /\ outcome[p] = Ok(resp[p].body)
    /\ (FirstFetch(p) /\ pc[p] \in {"done", "crashed"}) => outcome[p].status # "panic"

\* the key with every '/' turned into '-'
Flattened(key) == [i \in 1..Len(key) |-> IF key[i] = "/" THEN "-" ELSE key[i]]
Applied == probe.stage \in {"go", "ruby"}
BothParsed == Applied /\ probe.r1.ok /\ probe.r2.ok
DistinctPairs ==
  <<probe.r1.bucket, probe.r1.object>> # <<probe.r2.bucket, probe.r2.object>>
HasDashDash(b) == \E i \in 1..(Len(b) - 1) : b[i] = "-" /\ b[i + 1] = "-"
\* the names cannot run into each other: no '-' in the key, and the bucket
\* neither holds "--" nor ends in '-'
Unambiguous(r) ==
  /\ IndexFrom(r.object, "-", 1) = 0
  /\ ~HasDashDash(r.bucket)
  /\ r.bucket = <<>> \/ r.bucket[Len(r.bucket)] # "-"

\* C13 (as stated): the local path is <bucket>--<key with '/' replaced by
\* '-'>, and two references with distinct (bucket, key) pairs get distinct
\* local paths.
C13_DistinctPairsDistinctPaths ==
  BothParsed =>
    /\ probe.r1.path = probe.r1.bucket \o <<"-", "-">> \o Flattened(probe.r1.object)
    /\ DistinctPairs => probe.r1.path # probe.r2.path

\* C13 (amended): the local path is <bucket>--<key with '/' replaced by
\* '-'>, and two references with distinct (bucket, key) pairs get distinct
\* local paths when neither key holds a '-' and neither bucket holds "--"
\* or ends in '-'.
C13_DistinctPathsWhenUnambiguous ==
  BothParsed =>
    /\ probe.r1.path = probe.r1.bucket \o <<"-", "-">> \o Flattened(probe.r1.object)
    /\ (DistinctPairs /\ Unambiguous(probe.r1) /\ Unambiguous(probe.r2)) =>
         probe.r1.path # probe.r2.path

\* two distinct unambiguous pairs, one with a '/' in its key, were given paths
C13_Witness ==
  /\ BothParsed /\ DistinctPairs
  /\ Unambiguous(probe.r1) /\ Unambiguous(probe.r2)
  /\ IndexFrom(probe.r1.object, "/", 1) > 0
  /\ probe.r1.bucket = probe.r2.bucket
  /\ probe.r1.path # probe.r2.path

\* s is gs://B/K with B non-empty and free of '/'
WellFormed(s) ==
  /\ HasPrefixAt(s, 1, Str_gs)
  /\ IndexFrom(s, "/", Len(Str_gs) + 1) > Len(Str_gs) + 1
BucketOf(s) == SubSeq(s, Len(Str_gs) + 1, IndexFrom(s, "/", Len(Str_gs) + 1) - 1)
KeyOf(s) == SubSeq(s, IndexFrom(s, "/", Len(Str_gs) + 1) + 1, Len(s))

\* C14: a string gs://B/K with B non-empty and free of '/' parses to
\* exactly bucket B and key K; every other string fails to parse and
\* yields nothing.
C14_ReferenceParsing ==
  Applied =>
    IF WellFormed(probe.s1)
    THEN /\ probe.r1.ok
         /\ probe.r1.bucket = BucketOf(probe.s1)
         /\ probe.r1.object = KeyOf(probe.s1)
    ELSE probe.r1 = NoParse

C20_SidecarImpliesFile ==
  /\ \A x \in Paths : etagFile[x].exists => objFile[x].exists
  /\ \A p \in RubyProcs : pc[p] = "ret" => objFile[Path(p)].exists

\* update returns on a 'not modified' answer, after an earlier call crashed
\* or failed past its rename
C20_Witness ==
  \E p \in RubyProcs :
    /\ pc[p] = "ret" /\ resp[p].status = 304
    /\ etagFile[Path(p)].exists /\ objFile[Path(p)].exists
    /\ fetchedVer[p] = 0

\* C16: when two processes have fetched the same reference concurrently and
\* both have returned, the local file is one complete downloaded version
\* and the sidecar holds the ETag of exactly that version.
C16_ConcurrentFetchesEndCorrect ==
  (\A p \in RubyProcs2 : Returned(p) /\ call[p].url = URL_ok) =>
    \E v \in 1..MaxVersion :
      /\ objFile[cachePath(URL_ok).path] = File(Body(v))
      /\ etagFile[cachePath(URL_ok).path] = File(ETag(v))

\* C17: open, copy and read each resolve a token and then revalidate the
\* cache entry: a call of any of the three that got as far as the cache
\* entry has run the token resolution first.
C17_OnePipeline ==
  \A p \in Procs :
    (pc[p] \in {"done", "crashed"} /\ call[p].op \in Ops /\ Fetching(p)) =>
      ens[p].res # "none"

\* C18: once a call has returned or failed, at whatever step, no temporary
\* download file of that call remains.
C18_TempFilesRemoved ==
  \A p \in RubyProcs : pc[p] \in {"done", "idle", "new"} => tmpFile[p] = NoFile

\* a call failed on the network while the body of a 200 was streamed into
\* the temporary file
C18_Witness ==
  \E p \in RubyProcs :
    /\ pc[p] = "done" /\ Fetching(p)
    /\ outcome[p] = Error("network") /\ resp[p].status = 200
    /\ tmpFile[p] = NoFile

====
